---- MODULE Spec2Model ----
(***************************************************************************)
(* The bridge core of the File Bridge Relay (src/app.py): the websocket    *)
(* handler ws_endpoint, one task per agent connection, and agent_call,     *)
(* one task per HTTP request, interleaved by the asyncio event loop.  An   *)
(* action is the code a task runs between two suspension points.           *)
(***************************************************************************)
EXTENDS Integers, Sequences, FiniteSets, TLC

\* Bounds of the model.
MaxCalls == 2       \* agent_call invocations
MaxConns == 2       \* websocket connections accepted
MaxPings == 1       \* keepalive pings the agents send

Calls == 1..MaxCalls
Conns == 1..MaxConns
Tokens == {"a", "b"}
EmptyToken == ""
\* dict.get(key) of an absent key, and a call that is bound to no websocket
None == 0

\* Text is a sequence of code points, bytes a sequence of octets.
PING == <<112, 105, 110, 103>>
TXT == <<233>>
BIN == <<7>>

\* str.encode("utf-8") for code points below 2048
RECURSIVE Encode(_)
Encode(s) ==
    IF s = <<>> THEN <<>>
    ELSE LET cp == Head(s)
         IN  (IF cp < 128 THEN <<cp>>
              ELSE <<192 + (cp \div 64), 128 + (cp % 64)>>) \o Encode(Tail(s))

VARIABLES
    agents,             \* token -> registered connection, None when absent
    locks,              \* token -> asyncio.Lock, exists = FALSE when absent
    response_futures,   \* token -> call whose future is registered, or None
    futs,               \* the future each call created
    calls,              \* the agent_call tasks
    conns,              \* the websocket connections and their handlers
    pings               \* pings the agents have sent

vars == <<agents, locks, response_futures, futs, calls, conns, pings>>

NoFrame == [kind |-> "none", call |-> None]
NoFut == [st |-> "none", data |-> <<>>, re |-> None]
NewFut == [st |-> "pending", data |-> <<>>, re |-> None]
IdleCall == [pc |-> "idle", token |-> EmptyToken, ws |-> None, outcome |-> "none"]
\* inbox: the frames the agent sent that the handler has not read yet;
\* last: the latest frame the relay sent on the connection;
\* cmds: the calls whose command reached the agent and is not answered yet.
\* end: how the handler ended, "handshake" (before any registration),
\* "registered" (it was the registered connection of its token) or "stale".
\* lost: the read loop has read a data frame while no future was registered.
IdleConn == [st |-> "idle", token |-> EmptyToken, inbox |-> <<>>,
             dropped |-> FALSE, last |-> NoFrame, cmds |-> {}, end |-> "none",
             lost |-> FALSE]
\* A closed connection: its transport and what was in flight on it are gone.
ClosedConn(t, e) == [st |-> "closed", token |-> t, inbox |-> <<>>,
                     dropped |-> TRUE, last |-> NoFrame, cmds |-> {}, end |-> e,
                     lost |-> FALSE]
NoLock == [exists |-> FALSE, locked |-> FALSE, waiters |-> <<>>]

Init ==
    /\ agents = [t \in Tokens |-> None]
    /\ locks = [t \in Tokens |-> NoLock]
    /\ response_futures = [t \in Tokens |-> None]
    /\ futs = [k \in Calls |-> NoFut]
    /\ calls = [k \in Calls |-> IdleCall]
    /\ conns = [c \in Conns |-> IdleConn]
    /\ pings = 0

\* The transport of c is gone: a send on it raises.
Down(c) == conns[c].dropped \/ conns[c].st = "closed"

(***************************************************************************)
(* ws_endpoint: the handler of one agent connection.                       *)
(***************************************************************************)

\* ws.accept(); the handler then waits for the handshake frame.
\* Connections are numbered in the order they are accepted.
Accept(c) ==
    /\ conns[c].st = "idle"
    /\ c > 1 => conns[c - 1].st # "idle"
    /\ conns' = [conns EXCEPT ![c].st = "handshaking"]
    /\ UNCHANGED <<agents, locks, response_futures, futs, calls, pings>>

\* Variant of the registration that keeps the connection a token has.
RegisterFirstWins(t, c) == IF agents[t] = None THEN [agents EXCEPT ![t] = c]
                                               ELSE agents

\* agents[session_token] = ws
Register(t, c) == [agents EXCEPT ![t] = c]

\* Variant of the registration that stores a new lock at every handshake.
SetFreshLock(t) ==
    [locks EXCEPT ![t] = [exists |-> TRUE, locked |-> FALSE, waiters |-> <<>>]]

\* locks.setdefault(session_token, asyncio.Lock())
SetDefaultLock(t) ==
    [locks EXCEPT ![t] = IF @.exists THEN @
                         ELSE [exists |-> TRUE, locked |-> FALSE, waiters |-> <<>>]]

\* Variant of the handshake that takes every token for a session token.
IsEmptyNever(t) == FALSE

\* if not token_msg
IsEmpty(t) == t = EmptyToken

\* The first frame is the text t: an empty token closes the connection,
\* any other registers the connection under it.
Handshake(c, t) ==
    /\ conns[c].st = "handshaking"
    /\ IF IsEmpty(t)
       THEN /\ conns' = [conns EXCEPT ![c] = ClosedConn(EmptyToken, "handshake")]
            /\ UNCHANGED <<agents, locks>>
       ELSE /\ conns' = [conns EXCEPT ![c].st = "active", ![c].token = t]
            /\ agents' = Register(t, c)
            /\ locks' = SetDefaultLock(t)
    /\ UNCHANGED <<response_futures, futs, calls, pings>>

\* No frame within the handshake timeout, a frame that is not text, or a
\* disconnect: receive_text raises, ws.close(code=1008), return.
HandshakeFail(c) ==
    /\ conns[c].st = "handshaking"
    /\ conns' = [conns EXCEPT ![c] = ClosedConn(EmptyToken, "handshake")]
    /\ UNCHANGED <<agents, locks, response_futures, futs, calls, pings>>

\* Variant of the test that takes every future for a pending one.
DoneNever(k) == FALSE

\* fut.done()
Done(k) == futs[k].st # "pending"

\* Variant of the delivery that looks for a pending future under any token.
DeliverToAny(t, data, re) ==
    LET P == {k \in Calls : futs[k].st = "pending"}
    IN  IF P # {}
        THEN [futs EXCEPT ![CHOOSE k \in P : TRUE] =
                              [st |-> "result", data |-> data, re |-> re]]
        ELSE futs

\* fut = response_futures.get(session_token);
\* if fut and not fut.done(): fut.set_result(data)
Deliver(t, data, re) ==
    LET k == response_futures[t]
    IN  IF k # None /\ ~Done(k)
        THEN [futs EXCEPT ![k] = [st |-> "result", data |-> data, re |-> re]]
        ELSE futs

\* Variants of the registration test: one that takes every connection for
\* the registered one, one that takes none.
IsRegisteredAlways(c) == TRUE
IsRegisteredNever(c) == FALSE

\* if agents.get(session_token) is ws
IsRegistered(c) == agents[conns[c].token] = c

\* Variant of the finally block that leaves the future as it is.
TeardownNoCancel(c) ==
    LET t == conns[c].token
    IN  IF IsRegistered(c)
        THEN /\ agents' = [agents EXCEPT ![t] = None]
             /\ futs' = futs
             /\ response_futures' = [response_futures EXCEPT ![t] = None]
        ELSE UNCHANGED <<agents, futs, response_futures>>

\* Variant of the finally block that leaves the future registered.
TeardownKeepSlot(c) ==
    LET t == conns[c].token
        k == response_futures[t]
    IN  IF IsRegistered(c)
        THEN /\ agents' = [agents EXCEPT ![t] = None]
             /\ futs' = IF k # None /\ ~Done(k)
                        THEN [futs EXCEPT ![k].st = "cancelled"]
                        ELSE futs
             /\ response_futures' = response_futures
        ELSE UNCHANGED <<agents, futs, response_futures>>

\* The finally block of ws_endpoint.
Teardown(c) ==
    LET t == conns[c].token
        k == response_futures[t]
    IN  IF IsRegistered(c)
        THEN /\ agents' = [agents EXCEPT ![t] = None]
             /\ futs' = IF k # None /\ ~Done(k)
                        THEN [futs EXCEPT ![k].st = "cancelled"]
                        ELSE futs
             /\ response_futures' = [response_futures EXCEPT ![t] = None]
        ELSE UNCHANGED <<agents, futs, response_futures>>

\* message["type"] == "websocket.disconnect": break, then the finally block.
ReceiveDisconnect(c) ==
    /\ conns[c].st = "active"
    /\ conns[c].inbox # <<>>
    /\ Head(conns[c].inbox).type = "disconnect"
    /\ Teardown(c)
    /\ conns' = [conns EXCEPT ![c] = ClosedConn(conns[c].token,
                        IF IsRegistered(c) THEN "registered" ELSE "stale")]
    /\ UNCHANGED <<locks, calls, pings>>

\* Variant of the read loop without the keepalive branch.
IsPingNever(m) == FALSE

\* text_data == "ping"
IsPing(m) == m.type = "text" /\ m.body = PING

Pong == [kind |-> "pong", call |-> None]

\* text_data == "ping": ws.send_text("pong"); continue
ReceivePing(c) ==
    /\ conns[c].st = "active"
    /\ conns[c].inbox # <<>>
    /\ IsPing(Head(conns[c].inbox))
    /\ ~Down(c)
    /\ conns' = [conns EXCEPT ![c].inbox = Tail(@), ![c].last = Pong]
    /\ UNCHANGED <<agents, locks, response_futures, futs, calls, pings>>

\* text_data == "ping" and ws.send_text("pong") raises on the dropped
\* transport: except Exception, then the finally block.
ReceivePingSendError(c) ==
    /\ conns[c].st = "active"
    /\ conns[c].inbox # <<>>
    /\ IsPing(Head(conns[c].inbox))
    /\ Down(c)
    /\ Teardown(c)
    /\ conns' = [conns EXCEPT ![c] = ClosedConn(conns[c].token,
                        IF IsRegistered(c) THEN "registered" ELSE "stale")]
    /\ UNCHANGED <<locks, calls, pings>>

\* data = text_data.encode("utf-8")  |  data = message["bytes"]
DataOf(m) == IF m.type = "text" THEN Encode(m.body) ELSE m.body

\* A text frame other than ping, or a bytes frame.
ReceiveData(c) ==
    /\ conns[c].st = "active"
    /\ conns[c].inbox # <<>>
    /\ LET m == Head(conns[c].inbox)
       IN  /\ m.type \in {"text", "bytes"}
           /\ ~IsPing(m)
           /\ futs' = Deliver(conns[c].token, DataOf(m), m.re)
    /\ conns' = [conns EXCEPT ![c].inbox = Tail(@),
                              ![c].lost = @ \/ response_futures[conns[c].token] = None]
    /\ UNCHANGED <<agents, locks, response_futures, calls, pings>>

(***************************************************************************)
(* The agents: untrusted peers at the other end of the connections.        *)
(***************************************************************************)

\* The keepalive of the agent: the text frame ping.
AgentPing(c) ==
    /\ conns[c].st = "active"
    /\ ~conns[c].dropped
    /\ pings < MaxPings
    /\ pings' = pings + 1
    /\ conns' = [conns EXCEPT ![c].inbox =
                    Append(@, [type |-> "text", body |-> PING, re |-> None])]
    /\ UNCHANGED <<agents, locks, response_futures, futs, calls>>

Command(k) == [kind |-> "cmd", call |-> k]
Payload(k) == [kind |-> "payload", call |-> k]

\* The answer of the agent to the command of call k: a text frame or a
\* bytes frame, here text to the odd calls and bytes to the even ones.
Answer(k) ==
    IF k % 2 = 1 THEN [type |-> "text", body |-> TXT, re |-> k]
                 ELSE [type |-> "bytes", body |-> BIN, re |-> k]

\* The agent answers the command of call k, which it received on c, with
\* one data frame, at any time after the command.
AgentReply(c, k) ==
    /\ conns[c].st = "active"
    /\ ~conns[c].dropped
    /\ k \in conns[c].cmds
    /\ conns' = [conns EXCEPT ![c].cmds = @ \ {k},
                              ![c].inbox = Append(@, Answer(k))]
    /\ UNCHANGED <<agents, locks, response_futures, futs, calls, pings>>

\* The agent closes the connection, or the network drops it.
AgentDrop(c) ==
    /\ conns[c].st = "active"
    /\ ~conns[c].dropped
    /\ conns' = [conns EXCEPT ![c].dropped = TRUE,
                              ![c].inbox = Append(@, [type |-> "disconnect",
                                                      body |-> <<>>, re |-> None])]
    /\ UNCHANGED <<agents, locks, response_futures, futs, calls, pings>>

(***************************************************************************)
(* agent_call: one task per HTTP request.                                  *)
(***************************************************************************)

\* status: x_auth_token in agents
AgentConnected(t) == agents[t] # None

\* Variant of agent_call without the check of the registry.
NotInAgentsSkipped(t) == FALSE

\* session_token not in agents
NotInAgents(t) == agents[t] = None

\* Variant of acquire that does not look at the state of the lock.
CanLockUnchecked(t) == locks[t].waiters = <<>>

\* Lock.acquire() returns at once: the lock is free and nobody waits for it.
CanLock(t) == ~locks[t].locked /\ locks[t].waiters = <<>>

\* Lock.acquire() of a call that waited: the lock was released and the call
\* is the first of the waiters.
CanWake(t, k) ==
    /\ ~locks[t].locked
    /\ locks[t].waiters # <<>>
    /\ Head(locks[t].waiters) = k

\* fut = loop.create_future(); response_futures[session_token] = fut
RegisterFuture(t, k) ==
    /\ futs' = [futs EXCEPT ![k] = NewFut]
    /\ response_futures' = [response_futures EXCEPT ![t] = k]

\* The two checks, ws = agents[session_token], lock = locks[session_token],
\* and "async with lock" up to the first suspension point: the call takes
\* the free lock and registers its future, or joins the waiters.
\* Calls are numbered in the order they start.
CallStart(k, t) ==
    /\ calls[k].pc = "idle"
    /\ k > 1 => calls[k - 1].pc # "idle"
    /\ IF t = EmptyToken
       THEN /\ calls' = [calls EXCEPT ![k] =
                  [@ EXCEPT !.pc = "done", !.token = t,
                            !.outcome = "missing_session_token"]]
            /\ UNCHANGED <<locks, futs, response_futures>>
       ELSE IF NotInAgents(t)
       THEN /\ calls' = [calls EXCEPT ![k] =
                  [@ EXCEPT !.pc = "done", !.token = t,
                            !.outcome = "agent_not_connected"]]
            /\ UNCHANGED <<locks, futs, response_futures>>
       ELSE IF CanLock(t)
       THEN /\ calls' = [calls EXCEPT ![k] =
                  [@ EXCEPT !.pc = "send_cmd", !.token = t,
                            !.ws = agents[t]]]
            /\ locks' = [locks EXCEPT ![t].locked = TRUE]
            /\ RegisterFuture(t, k)
       ELSE /\ calls' = [calls EXCEPT ![k] =
                  [@ EXCEPT !.pc = "wait_lock", !.token = t,
                            !.ws = agents[t]]]
            /\ locks' = [locks EXCEPT ![t].waiters = Append(@, k)]
            /\ UNCHANGED <<futs, response_futures>>
    /\ UNCHANGED <<agents, conns, pings>>

\* The lock was released: the first waiter takes it and registers its future.
Acquire(k) ==
    LET t == calls[k].token
    IN  /\ calls[k].pc = "wait_lock"
        /\ CanWake(t, k)
        /\ locks' = [locks EXCEPT ![t].locked = TRUE, ![t].waiters = Tail(@)]
        /\ RegisterFuture(t, k)
        /\ calls' = [calls EXCEPT ![k].pc = "send_cmd"]
        /\ UNCHANGED <<agents, conns, pings>>

\* await ws.send_text(command); p tells whether the call has a payload,
\* which "if payload is not None" reads next.
SendCommand(k, p) ==
    /\ calls[k].pc = "send_cmd"
    /\ ~Down(calls[k].ws)
    /\ conns' = [conns EXCEPT ![calls[k].ws].last = Command(k),
                              ![calls[k].ws].cmds = @ \cup {k}]
    /\ calls' = [calls EXCEPT ![k].pc = IF p THEN "send_payload"
                                                ELSE "await"]
    /\ UNCHANGED <<agents, locks, response_futures, futs, pings>>

\* if payload is not None: await ws.send_bytes(payload)
SendPayload(k) ==
    /\ calls[k].pc = "send_payload"
    /\ ~Down(calls[k].ws)
    /\ conns' = [conns EXCEPT ![calls[k].ws].last = Payload(k)]
    /\ calls' = [calls EXCEPT ![k].pc = "await"]
    /\ UNCHANGED <<agents, locks, response_futures, futs, pings>>

\* Variant of the finally block of agent_call that pops nothing.
CleanUpSkipped(t, k) == response_futures

\* Variant of the finally block of agent_call that clears the whole table.
CleanUpAll(t, k) == [u \in Tokens |-> None]

\* finally: if response_futures.get(session_token) == fut: pop
CleanUp(t, k) ==
    IF response_futures[t] = k THEN [response_futures EXCEPT ![t] = None]
                               ELSE response_futures

\* Variant of the exit that keeps the lock.
ReleaseLeak(t) == locks

\* Lock.release() at the exit of "async with lock"
Release(t) == [locks EXCEPT ![t].locked = FALSE]

\* The call leaves agent_call with the outcome o: the finally block, then
\* the release of the lock, with no suspension point in between.
Exit(k, o) ==
    /\ calls' = [calls EXCEPT ![k] = [IdleCall EXCEPT !.pc = "done",
                                       !.token = calls[k].token, !.outcome = o]]
    /\ response_futures' = CleanUp(calls[k].token, k)
    /\ locks' = Release(calls[k].token)

\* A send raises on a transport that is gone: except Exception.
SendError(k) ==
    /\ calls[k].pc \in {"send_cmd", "send_payload"}
    /\ Down(calls[k].ws)
    /\ Exit(k, "agent_error")
    /\ UNCHANGED <<agents, futs, conns, pings>>

\* wait_for returns the result the read loop has set: return data.
Return(k) ==
    /\ calls[k].pc = "await"
    /\ futs[k].st = "result"
    /\ Exit(k, "ok")
    /\ UNCHANGED <<agents, futs, conns, pings>>

\* The connection handler cancelled the future: wait_for raises
\* CancelledError, which no except clause of agent_call handles.
Cancelled(k) ==
    /\ calls[k].pc = "await"
    /\ futs[k].st = "cancelled"
    /\ Exit(k, "agent_disconnected")
    /\ UNCHANGED <<agents, futs, conns, pings>>

\* The 120 s of wait_for pass with the future pending: wait_for cancels it
\* and the task is suspended until the cancellation is delivered.
Timeout(k) ==
    /\ calls[k].pc = "await"
    /\ futs[k].st = "pending"
    /\ futs' = [futs EXCEPT ![k].st = "cancelled"]
    /\ calls' = [calls EXCEPT ![k].pc = "timed_out"]
    /\ UNCHANGED <<agents, locks, response_futures, conns, pings>>

\* except asyncio.TimeoutError: HTTPException 504 agent_timeout
TimeoutExit(k) ==
    /\ calls[k].pc = "timed_out"
    /\ Exit(k, "agent_timeout")
    /\ UNCHANGED <<agents, futs, conns, pings>>

Next ==
    \/ \E c \in Conns : Accept(c)
    \/ \E c \in Conns, t \in Tokens \cup {EmptyToken} : Handshake(c, t)
    \/ \E c \in Conns : HandshakeFail(c)
    \/ \E c \in Conns : ReceiveDisconnect(c)
    \/ \E c \in Conns : ReceivePing(c)
    \/ \E c \in Conns : ReceivePingSendError(c)
    \/ \E c \in Conns : ReceiveData(c)
    \/ \E c \in Conns : AgentPing(c)
    \/ \E c \in Conns, k \in Calls : AgentReply(c, k)
    \/ \E c \in Conns : AgentDrop(c)
    \/ \E k \in Calls, t \in Tokens \cup {EmptyToken} : CallStart(k, t)
    \/ \E k \in Calls : Acquire(k)
    \/ \E k \in Calls, p \in BOOLEAN : SendCommand(k, p)
    \/ \E k \in Calls : SendPayload(k)
    \/ \E k \in Calls : SendError(k)
    \/ \E k \in Calls : Return(k)
    \/ \E k \in Calls : Cancelled(k)
    \/ \E k \in Calls : Timeout(k)
    \/ \E k \in Calls : TimeoutExit(k)

Spec == Init /\ [][Next]_vars

\* The steps of the task of call k once it has started.
CallStep(k) ==
    \/ Acquire(k)
    \/ \E p \in BOOLEAN : SendCommand(k, p)
    \/ SendPayload(k)
    \/ SendError(k)
    \/ Return(k)
    \/ Cancelled(k)
    \/ Timeout(k)
    \/ TimeoutExit(k)

\* The event loop runs every task that is ready: a call that can take the
\* lock takes it, a send completes or raises, the timeout of wait_for fires,
\* a completed future wakes the call.  Agents and handlers are free.
FairSpec == Spec /\ \A k \in Calls : WF_vars(CallStep(k))

(***************************************************************************)
(* Properties.                                                             *)
(***************************************************************************)

\* The calls that hold the lock of token t: between acquire and release.
InFlight(t) ==
    {k \in Calls : /\ calls[k].token = t
                   /\ calls[k].pc \in {"send_cmd", "send_payload", "await", "timed_out"}}

\* The handler of connection c, active in this state, ends in this step.
Closes(c) == conns[c].st = "active" /\ conns'[c].st = "closed"

\* C1: single-flight. For every token at most one call is between acquiring
\* and releasing the token's lock, and the lock is held while one is: the
\* send and await phases of two calls on one token never overlap.
C1_SingleFlight ==
    \A t \in Tokens :
        /\ Cardinality(InFlight(t)) <= 1
        /\ InFlight(t) # {} => locks[t].locked

\* C1 happens: a call waits for the lock while another call on the same
\* token awaits its response.
C1_Witness ==
    \E k, j \in Calls :
        /\ calls[k].pc = "await"
        /\ calls[j].pc = "wait_lock"
        /\ calls[j].token = calls[k].token

\* C2: no mis-delivery. The result a call returns is the frame the agent
\* sent in answer to that call's own command, never the answer to the
\* command of another (earlier) call.
C2_NoMisdelivery ==
    \A k \in Calls : calls[k].outcome = "ok" => futs[k].re = k

\* C3 as claimed: when a connection of token t is dropped while a call on t
\* awaits its pending future, the future is cancelled and no connection is
\* registered for t right after.
C3_AnyDropFailsCall ==
    [][\A c \in Conns : Closes(c) =>
          \A k \in Calls :
              (/\ calls[k].pc = "await"
               /\ calls[k].token = conns[c].token
               /\ futs[k].st = "pending")
              => /\ futs'[k].st = "cancelled"
                 /\ ~AgentConnected(conns[c].token)']_vars

\* C3, amended: when the connection registered for token t is dropped while
\* a call on t awaits its pending future, the future is cancelled and no
\* connection is registered for t right after; a call that awaits a
\* cancelled future takes no step but its exit with agent_disconnected.
C3_RegisteredDropFailsCall ==
    [][/\ \A c \in Conns : (Closes(c) /\ agents[conns[c].token] = c) =>
             /\ ~AgentConnected(conns[c].token)'
             /\ \A k \in Calls :
                   (/\ calls[k].pc = "await"
                    /\ calls[k].token = conns[c].token
                    /\ futs[k].st = "pending")
                   => futs'[k].st = "cancelled"
       /\ \A k \in Calls : (calls[k].pc = "await" /\ futs[k].st = "cancelled") =>
             /\ futs'[k] = futs[k]
             /\ calls'[k] # calls[k] =>
                   (calls'[k].pc = "done" /\ calls'[k].outcome = "agent_disconnected")
      ]_vars

\* C3 happens: a call has failed with agent_disconnected and its token has
\* no registered connection.
C3_Witness ==
    \E k \in Calls :
        /\ calls[k].outcome = "agent_disconnected"
        /\ ~AgentConnected(calls[k].token)

\* C4: a call whose wait timed out leaves only with agent_timeout, and when
\* it has left the lock of its token is free and no future is registered
\* for the token.
C4_TimeoutReleases ==
    [][\A k \in Calls : (calls[k].pc = "timed_out" /\ calls'[k] # calls[k]) =>
          /\ calls'[k].pc = "done"
          /\ calls'[k].outcome = "agent_timeout"
          /\ ~locks'[calls[k].token].locked
          /\ response_futures'[calls[k].token] = None]_vars

\* C4 happens: call 1 timed out and call 2, which took the lock of the same
\* token after it, returned the agent's answer to its own command.
C4_Witness ==
    /\ calls[1].outcome = "agent_timeout"
    /\ calls[2].outcome = "ok"
    /\ calls[2].token = calls[1].token
    /\ futs[2].re = 2

\* C5: a call with the empty token fails with missing_session_token, a call
\* with a token that has no registered connection fails with
\* agent_not_connected; neither takes a lock, registers a future or sends.
C5_Unavailable ==
    [][\A k \in Calls :
          (/\ calls[k].pc = "idle"
           /\ calls'[k].pc # "idle"
           /\ (calls'[k].token = EmptyToken \/ agents[calls'[k].token] = None))
          => /\ calls'[k].pc = "done"
             /\ calls'[k].outcome = IF calls'[k].token = EmptyToken
                                    THEN "missing_session_token"
                                    ELSE "agent_not_connected"
             /\ UNCHANGED <<agents, locks, response_futures, futs, conns>>]_vars

\* C5 happens: a call failed with agent_not_connected on a token whose lock
\* exists (an agent was connected before), and a call failed on the empty
\* token.
C5_Witness ==
    /\ \E k \in Calls : /\ calls[k].outcome = "agent_not_connected"
                        /\ locks[calls[k].token].exists
    /\ \E k \in Calls : calls[k].outcome = "missing_session_token"

\* C6: stale-disconnect guard. The end of a connection that is not the one
\* registered for its token leaves the registry as it is, and a token loses
\* its registration only by the end of the very connection registered.
C6_StaleDisconnectGuard ==
    [][/\ \A c \in Conns : (Closes(c) /\ agents[conns[c].token] # c) =>
             agents' = agents
       /\ \A t \in Tokens : (agents[t] # None /\ agents'[t] # agents[t]) =>
             \/ Closes(agents[t])
             \/ (agents'[t] # None /\ conns'[agents'[t]].token = t)]_vars

\* C6 happens: c1 ended as a replaced connection and the connection that
\* replaced it is still registered for the token.
C6_Witness ==
    \E c1, c2 \in Conns :
        /\ conns[c1].end = "stale"
        /\ conns[c2].st = "active"
        /\ conns[c2].token = conns[c1].token
        /\ agents[conns[c1].token] = c2

\* C7: the future is unregistered before the lock is released: whenever the
\* lock of a token is not held, no future is registered for the token.
C7_FreeLockNoSlot ==
    \A t \in Tokens : ~locks[t].locked => response_futures[t] = None

\* C7 happens: a call left through the timeout or a send error and the lock
\* of its token is free again.
C7_Witness ==
    /\ \E k \in Calls : /\ calls[k].outcome = "agent_timeout"
                        /\ ~locks[calls[k].token].locked
    /\ \E k \in Calls : /\ calls[k].outcome = "agent_error"
                        /\ ~locks[calls[k].token].locked

\* C8 as claimed: whenever an active connection ends, the future registered
\* for its token is unregistered, and cancelled if it was pending.
C8_AnyCloseCancels ==
    [][\A c \in Conns : (Closes(c) /\ response_futures[conns[c].token] # None) =>
          /\ response_futures'[conns[c].token] = None
          /\ futs[response_futures[conns[c].token]].st = "pending" =>
                futs'[response_futures[conns[c].token]].st = "cancelled"]_vars

\* C8, amended: when the connection that ends is the one registered for its
\* token, the future registered for the token is unregistered, it is
\* cancelled if it was pending, and no other future or registration changes;
\* the end of a replaced connection changes no future and no registration.
C8_RegisteredCloseCancels ==
    [][\A c \in Conns : Closes(c) =>
          LET t == conns[c].token
              k == response_futures[t]
          IN  IF agents[t] = c
              THEN /\ response_futures' = [response_futures EXCEPT ![t] = None]
                   /\ futs' = IF k # None /\ futs[k].st = "pending"
                              THEN [futs EXCEPT ![k].st = "cancelled"]
                              ELSE futs
              ELSE UNCHANGED <<response_futures, futs>>]_vars

\* C8 happens: the future of a call that still awaits it was cancelled and
\* unregistered by the end of the connection.
C8_Witness ==
    \E k \in Calls :
        /\ calls[k].pc = "await"
        /\ futs[k].st = "cancelled"
        /\ response_futures[calls[k].token] = None
        /\ conns[calls[k].ws].end = "registered"

\* The handler of c reads a text frame ping in this step.
ReadsPing(c) ==
    /\ conns[c].st = "active"
    /\ conns[c].inbox # <<>>
    /\ Head(conns[c].inbox).type = "text"
    /\ Head(conns[c].inbox).body = PING
    /\ Len(conns'[c].inbox) < Len(conns[c].inbox)

\* C9 as claimed: reading a ping changes no future and no registration; its
\* only effect is one pong sent on the connection.
C9_PingOnlyPongs ==
    [][\A c \in Conns : ReadsPing(c) =>
          /\ UNCHANGED <<agents, locks, response_futures, futs, calls>>
          /\ conns'[c] = [conns[c] EXCEPT !.inbox = Tail(@), !.last = Pong]]_vars

\* C9, amended: reading a ping never gives a future a result; on a
\* connection whose transport is up its only effect is one pong sent on the
\* connection; on a dropped transport the send raises and the handler ends
\* as it does on a disconnect.
C9_PingNeverResolves ==
    [][\A c \in Conns : ReadsPing(c) =>
          /\ \A k \in Calls : futs'[k].st = "result" => futs'[k] = futs[k]
          /\ UNCHANGED <<locks, calls>>
          /\ IF ~conns[c].dropped
             THEN /\ UNCHANGED <<agents, response_futures, futs>>
                  /\ conns'[c] = [conns[c] EXCEPT !.inbox = Tail(@), !.last = Pong]
             ELSE conns'[c].st = "closed"]_vars

\* C9 happens: a ping was read and answered with a pong on the connection a
\* call sent its command on, and the future of the call is still pending.
C9_Witness ==
    \E k \in Calls :
        /\ calls[k].pc = "await"
        /\ futs[k].st = "pending"
        /\ response_futures[calls[k].token] = k
        /\ conns[calls[k].ws].last = Pong

\* C10 as claimed: no two connections that finished the handshake with the
\* same token are active at the same time.
C10_OneLiveConnection ==
    \A c1, c2 \in Conns :
        (c1 # c2 /\ conns[c1].st = "active" /\ conns[c2].st = "active")
        => conns[c1].token # conns[c2].token

\* C10, amended: a token has at most one registered connection, and the
\* registered connection is an active one that shook hands with that token.
C10_RegisteredIsLive ==
    \A t \in Tokens :
        agents[t] # None =>
            (conns[agents[t]].st = "active" /\ conns[agents[t]].token = t)

\* C10 happens: two connections of one token are active, the later one is
\* the registered one.
C10_Witness ==
    \E c1, c2 \in Conns :
        /\ c1 # c2
        /\ conns[c1].st = "active"
        /\ conns[c2].st = "active"
        /\ conns[c1].token = conns[c2].token
        /\ agents[conns[c1].token] = c2

\* C11: a handshake that fails (no frame in time, a first frame that is not
\* text, an empty token) takes the connection straight to closed and leaves
\* the registry, the locks, the registered futures and the futures as they
\* are; a connection becomes active only under a token that is not empty,
\* and one that failed its handshake does nothing afterwards.
C11_FailedHandshakeNoEffect ==
    [][\A c \in Conns :
          /\ conns[c].st = "handshaking" /\ conns'[c].st = "closed"
                => /\ UNCHANGED <<agents, locks, response_futures, futs>>
                   /\ conns'[c].end = "handshake"
          /\ conns[c].st = "handshaking" /\ conns'[c].st = "active"
                => conns'[c].token # EmptyToken
          /\ conns[c].end = "handshake" => conns'[c] = conns[c]]_vars

\* C11 happens: a connection failed its handshake while another one is
\* registered and a call awaits its pending future.
C11_Witness ==
    \E c \in Conns, k \in Calls :
        /\ conns[c].end = "handshake"
        /\ calls[k].pc = "await"
        /\ futs[k].st = "pending"
        /\ response_futures[calls[k].token] = k
        /\ agents[calls[k].token] = calls[k].ws

\* The read loop of connection c takes a data frame (a text frame other
\* than ping, or a bytes frame) from the connection in this step.
ReadsData(c) ==
    /\ conns[c].st = "active"
    /\ conns[c].inbox # <<>>
    /\ Head(conns[c].inbox).type \in {"text", "bytes"}
    /\ ~(Head(conns[c].inbox).type = "text" /\ Head(conns[c].inbox).body = PING)
    /\ conns'[c].inbox = Tail(conns[c].inbox)

\* C12: a data frame read while no future is registered for the token of
\* the connection (the late answer to a call that timed out, for one) is
\* dropped: the frame is gone, nothing is raised (the connection stays
\* active), no future is resolved, and the registry, the locks, the
\* registered futures and the calls stay as they are.
C12_FrameWithoutSlotDropped ==
    [][\A c \in Conns :
          ReadsData(c) /\ response_futures[conns[c].token] = None
              => /\ UNCHANGED <<agents, locks, response_futures, futs, calls>>
                 /\ conns'[c].st = "active"
                 /\ \A d \in Conns \ {c} : conns'[d] = conns[d]]_vars

\* C12 happens: the answer to a call that timed out was read with no future
\* registered, and a later call on the token returned its own answer.
C12_Witness ==
    \E c \in Conns, k, j \in Calls :
        /\ conns[c].lost
        /\ k < j
        /\ calls[k].outcome = "agent_timeout"
        /\ calls[j].outcome = "ok"
        /\ calls[j].token = calls[k].token
        /\ conns[c].token = calls[k].token
        /\ futs[j].re = j

\* C13: the lock of a token, once created, is never removed; a step of no
\* call (a handshake, a reconnect, a disconnect) leaves it as it is, holder
\* and waiters included, so the calls before and after a reconnect meet at
\* the same lock; every token in the registry has a lock.
C13_LockIsPermanent ==
    [][\A t \in Tokens :
          /\ locks[t].exists => locks'[t].exists
          /\ locks[t].exists /\ calls' = calls => locks'[t] = locks[t]
          /\ agents[t] # None => locks[t].exists
          /\ agents'[t] # None => locks'[t].exists]_vars

\* C13 happens: a call that started before a reconnect holds the lock and a
\* call that started after it, bound to the new connection, waits for it.
C13_Witness ==
    \E k, j \in Calls :
        /\ calls[k].pc = "await"
        /\ calls[j].pc = "wait_lock"
        /\ calls[j].token = calls[k].token
        /\ calls[j].ws # calls[k].ws
        /\ locks[calls[k].token].locked
        /\ locks[calls[k].token].waiters = <<j>>

\* The registered connection, the lock or the registered future of token t
\* changes in this step.
Changed(t) ==
    \/ agents'[t] # agents[t]
    \/ locks'[t] # locks[t]
    \/ response_futures'[t] # response_futures[t]

\* This step is a step of a call on token t or of a connection of token t.
StepOf(t) ==
    \/ \E k \in Calls : calls'[k] # calls[k] /\ calls'[k].token = t
    \/ \E c \in Conns : conns'[c] # conns[c] /\ conns'[c].token = t

\* C14: sessions are independent. The registered connection, the lock and
\* the registered future of a token change only in steps of a call or a
\* connection of that token, a step changes them for one token at most, and
\* the future of a call changes only in steps of its own session.
C14_SessionsIndependent ==
    [][/\ \A t \in Tokens : Changed(t) => StepOf(t)
       /\ \A t, u \in Tokens : Changed(t) /\ Changed(u) => t = u
       /\ \A k \in Calls : futs'[k] # futs[k]
              => \/ calls'[k] # calls[k]
                 \/ StepOf(calls[k].token) /\ calls[k].token # EmptyToken]_vars

\* C14 happens: a call on one token awaits an answer that does not come,
\* and a call that started later on another token has returned its answer.
C14_Witness ==
    \E k, j \in Calls :
        /\ k < j
        /\ calls[k].pc = "await"
        /\ futs[k].st = "pending"
        /\ calls[j].outcome = "ok"
        /\ calls[j].token # calls[k].token
        /\ locks[calls[k].token].locked
        /\ ~locks[calls[j].token].locked

\* C15: a future is completed once. A future that holds a result or is
\* cancelled never changes again, whatever frame, disconnect or timeout
\* comes later, and the call that awaits it leaves with the outcome of that
\* one completion: ok for a result, agent_disconnected for the cancellation
\* by the handler, agent_timeout for the cancellation by the timeout.
C15_SingleAssignment ==
    [][\A k \in Calls :
          /\ futs[k].st \in {"result", "cancelled"} => futs'[k] = futs[k]
          /\ calls[k].pc = "timed_out" => futs[k].st = "cancelled"
          /\ calls[k].pc \in {"await", "timed_out"} /\ calls'[k].pc = "done"
                => /\ futs[k].st # "pending"
                   /\ calls'[k].outcome =
                         IF calls[k].pc = "timed_out" THEN "agent_timeout"
                         ELSE IF futs[k].st = "result" THEN "ok"
                         ELSE "agent_disconnected"]_vars

\* C15 happens: the future of a call was resolved with the answer, then the
\* connection was closed and unregistered, and the call, still to run, finds
\* the result in its future.
C15_Witness ==
    \E k \in Calls :
        /\ calls[k].pc = "await"
        /\ futs[k].st = "result"
        /\ futs[k].re = k
        /\ conns[calls[k].ws].end = "registered"
        /\ agents[calls[k].token] = None

\* C16: the registration is last-writer-wins. A connection that completes
\* its handshake under a token is, right after, the connection the registry
\* holds for that token, whatever was registered before; and a connection
\* waiting for its handshake can complete it under any token, taken or not
\* (no agent is rejected because the token has a connection).
C16_LastWriterWins ==
    [][\A c \in Conns :
          /\ conns[c].st = "handshaking" /\ conns'[c].st = "active"
                => agents'[conns'[c].token] = c
          /\ conns[c].st = "handshaking"
                => \A t \in Tokens :
                      ENABLED (Handshake(c, t) /\ conns'[c].st = "active")]_vars

\* C16 happens: a connection took over the token of a connection that is
\* still active and on which a call, bound to it, awaits its answer.
C16_Witness ==
    \E c \in Conns, k \in Calls :
        /\ calls[k].pc = "await"
        /\ calls[k].ws # c
        /\ conns[calls[k].ws].st = "active"
        /\ conns[c].st = "active"
        /\ conns[c].token = calls[k].token
        /\ agents[calls[k].token] = c

\* C17: under fair scheduling of the calls every call that has started
\* comes to its end, whatever the agents do, with one of the outcomes of
\* agent_call; a call that waits for the lock leaves the wait only by
\* taking the lock, so it comes to hold it.
C17_CallsTerminate ==
    /\ \A k \in Calls : calls[k].pc # "idle" ~> calls[k].pc = "done"
    /\ [][\A k \in Calls : calls[k].pc = "wait_lock" =>
              \/ calls'[k] = calls[k]
              \/ calls'[k].pc = "send_cmd" /\ locks'[calls[k].token].locked]_vars
    /\ [](\A k \in Calls : calls[k].pc = "done" =>
              calls[k].outcome \in {"missing_session_token", "agent_not_connected",
                                    "ok", "agent_timeout", "agent_disconnected",
                                    "agent_error"})

\* C17 happens: a call timed out on a silent agent, the call that started
\* after it on the same token has ended too, and the lock is free.
C17_Witness ==
    \E k, j \in Calls :
        /\ k < j
        /\ calls[k].outcome = "agent_timeout"
        /\ calls[j].token = calls[k].token
        /\ calls[j].outcome \in {"ok", "agent_timeout", "agent_disconnected",
                                 "agent_error"}
        /\ ~locks[calls[k].token].locked
        /\ locks[calls[k].token].waiters = <<>>

\* C18: a call sends on the connection that is registered for its token at
\* the moment of sending.  The command goes out in the run of the task that
\* holds the lock: at once for a call that found the lock free, after the
\* wait for a call that queued; the payload goes out when the send of the
\* command has returned.
C18_SendsOnRegistered ==
    [][\A k \in Calls :
          /\ calls[k].pc = "idle" /\ calls'[k].pc = "send_cmd"
                => calls'[k].ws = agents[calls'[k].token]
          /\ calls[k].pc = "wait_lock" /\ calls'[k].pc = "send_cmd"
                => calls[k].ws = agents[calls[k].token]
          /\ calls[k].pc = "send_payload" /\ calls'[k].pc = "await"
                => calls[k].ws = agents[calls[k].token]]_vars

\* C19: the future of a call is resolved only by a frame read from the
\* connection the call sends on, never by a frame read from another
\* connection that made its handshake with the same token.
C19_ResolvedOnOwnConnection ==
    [][\A k \in Calls :
          futs[k].st = "pending" /\ futs'[k].st = "result"
              => \A c \in Conns : conns'[c] # conns[c] => c = calls[k].ws]_vars

\* C20: from the command of a call to its payload, the command stays the
\* latest frame the relay has sent on the connection: no frame of another
\* call and no pong of the read loop goes out between the two.
C20_NothingBetween ==
    \A k \in Calls :
        calls[k].pc = "send_payload"
            => \/ conns[calls[k].ws].st = "closed"
               \/ conns[calls[k].ws].last = Command(k)

====
